---- MODULE Spec2Model ----
(***************************************************************************)
(* Model of the VLS collector (src/lambda_modernized.py): module load,     *)
(* environment, lambda_handler and upload_to_s3, with the HTTP layer and   *)
(* the object store as nondeterministic collaborators.                     *)
(***************************************************************************)
EXTENDS Integers, Sequences, FiniteSets, TLC

(* ------------------------------ bounds --------------------------------- *)
MaxInvocations == 1
MaxRepeats == 2
MaxEnvChanges == 1
MaxClock == 1

(* ------------------------- values of the model ------------------------- *)
\* Python's None (os.environ.get on an unset variable, the default argument).
None == "<None>"
\* A module global that line 49-57 never assigned (reading it is a NameError).
Undefined == "<NameError>"

Required == {"CONTRACT", "API_KEY", "BUCKET_NAME"}
EnvVars == {"CONTRACT", "API_KEY", "BUCKET_NAME", "KEY_ID", "KEY_SECRET"}

\* Values a test or a deployment gives a required variable (None: unset).
EnvValues(v) ==
    CASE v = "CONTRACT"    -> {None, "", "paris", "lyon"}
      [] v = "API_KEY"     -> {None, "", "test-api-key"}
      [] v = "BUCKET_NAME" -> {None, "", "test-bucket"}

\* The optional credential pair: absent (role-based deployment), blank, or
\* a static key pair.
Credentials == { <<None, None>>, <<"", "">>, <<"AKIA", "secret">> }

\* The environments the module is imported in: each required variable unset
\* or set to its deployed value, with one of the credential pairs.
Environments ==
    { [CONTRACT |-> c, API_KEY |-> a, BUCKET_NAME |-> b,
       KEY_ID |-> k[1], KEY_SECRET |-> k[2]] :
        c \in {None, "paris"}, a \in {None, "test-api-key"},
        b \in {None, "test-bucket"}, k \in Credentials }

\* Python truthiness of a str-or-None value.
Truthy(x) == x # None /\ x # ""

(* ------------------------------ get_env_var ---------------------------- *)
\* os.environ.get(var_name, default); a None value raises ValueError.
get_env_var(e, var_name, default) ==
    LET value == IF e[var_name] # None THEN e[var_name] ELSE default
    IN  IF value = None
        THEN [raised |-> TRUE,  value |-> None,  var |-> var_name]
        ELSE [raised |-> FALSE, value |-> value, var |-> var_name]

(* ------------------------------ module load ---------------------------- *)
\* Lines 49-60: the five assignments run in order inside one try block; the
\* first ValueError leaves every later global unassigned.
ModuleLoad(e) ==
    LET c  == get_env_var(e, "CONTRACT", None)
        a  == get_env_var(e, "API_KEY", None)
        b  == get_env_var(e, "BUCKET_NAME", None)
        k  == get_env_var(e, "KEY_ID", None)
        s  == get_env_var(e, "KEY_SECRET", None)
        r1 == ~c.raised
        r2 == r1 /\ ~a.raised
        r3 == r2 /\ ~b.raised
        r4 == r3 /\ ~k.raised
        r5 == r4 /\ ~s.raised
    IN  [contract    |-> IF r1 THEN c.value ELSE Undefined,
         api_key     |-> IF r2 THEN a.value ELSE Undefined,
         bucket_name |-> IF r3 THEN b.value ELSE Undefined,
         key_id      |-> IF r4 THEN k.value ELSE Undefined,
         key_secret  |-> IF r5 THEN s.value ELSE Undefined]

(* ------------------------------ get_s3_client -------------------------- *)
\* `if key_id and key_secret`: reads the globals left to right, with
\* short-circuit; an unassigned global read is a NameError.
get_s3_client(g) ==
    IF g.key_id = Undefined THEN "NameError"
    ELSE IF ~Truthy(g.key_id) THEN "iam_role_client"
    ELSE IF g.key_secret = Undefined THEN "NameError"
    ELSE IF Truthy(g.key_secret) THEN "access_key_client"
    ELSE "iam_role_client"

(* ------------------------------ json.loads ----------------------------- *)
\* A response text is a sequence of JSON tokens; json.loads is a recursive
\* descent over it. A parse result carries what len() of the value gives
\* (len < 0: the value has no len(), so len() raises TypeError).
StringTokens == {"\"ok\"", "\"error\"", "\"Unauthorized\""}

StrLen(tok) ==
    CASE tok = "\"ok\"" -> 2
      [] tok = "\"error\"" -> 5
      [] tok = "\"Unauthorized\"" -> 12

JSONDecodeError == [ok |-> FALSE, next |-> 0, kind |-> "-", len |-> -1]

JsonValue(nxt, kind, n) == [ok |-> TRUE, next |-> nxt, kind |-> kind, len |-> n]

RECURSIVE ParseValue(_, _), ParseElements(_, _, _), ParseMembers(_, _, _)

ParseValue(t, i) ==
    IF i > Len(t) THEN JSONDecodeError
    ELSE IF t[i] \in StringTokens THEN JsonValue(i + 1, "string", StrLen(t[i]))
    ELSE IF t[i] = "42" THEN JsonValue(i + 1, "number", -1)
    ELSE IF t[i] \in {"true", "false"} THEN JsonValue(i + 1, "boolean", -1)
    ELSE IF t[i] = "null" THEN JsonValue(i + 1, "null", -1)
    ELSE IF t[i] = "["
         THEN IF i + 1 <= Len(t) /\ t[i + 1] = "]"
              THEN JsonValue(i + 2, "array", 0)
              ELSE ParseElements(t, i + 1, 0)
    ELSE IF t[i] = "{"
         THEN IF i + 1 <= Len(t) /\ t[i + 1] = "}"
              THEN JsonValue(i + 2, "object", 0)
              ELSE ParseMembers(t, i + 1, {})
    ELSE JSONDecodeError

\* elements of an array after "[" (n already parsed)
ParseElements(t, i, n) ==
    LET v == ParseValue(t, i)
    IN  IF ~v.ok \/ v.next > Len(t) THEN JSONDecodeError
        ELSE IF t[v.next] = "," THEN ParseElements(t, v.next + 1, n + 1)
        ELSE IF t[v.next] = "]" THEN JsonValue(v.next + 1, "array", n + 1)
        ELSE JSONDecodeError

\* members of an object after "{" (keys already parsed; a repeated key
\* replaces the earlier one in the resulting dict)
ParseMembers(t, i, keys) ==
    IF i + 1 > Len(t) \/ t[i] \notin StringTokens \/ t[i + 1] # ":"
    THEN JSONDecodeError
    ELSE LET v == ParseValue(t, i + 2)
         IN  IF ~v.ok \/ v.next > Len(t) THEN JSONDecodeError
             ELSE IF t[v.next] = ","
                  THEN ParseMembers(t, v.next + 1, keys \cup {t[i]})
             ELSE IF t[v.next] = "}"
                  THEN JsonValue(v.next + 1, "object", Cardinality(keys \cup {t[i]}))
             ELSE JSONDecodeError

\* json.loads(text): one value, then end of text.
json_loads(text) ==
    LET v == ParseValue(text, 1)
    IN  IF v.ok /\ v.next = Len(text) + 1 THEN v ELSE JSONDecodeError

\* Response texts the upstream may send.
Stations1 == <<"[", "{", "}", "]">>
Stations2 == <<"[", "{", "}", ",", "{", "}", "]">>
ErrorObject == <<"{", "\"error\"", ":", "\"Unauthorized\"", "}">>
Texts == { Stations1, Stations2, ErrorObject,
           <<"\"ok\"">>, <<"42">>, <<"true">>, <<"null">>, <<"<html>">> }

(* ------------------------------ requests.get --------------------------- *)
StatusCodes == {200, 403, 500, 504}

\* What requests.get(..., timeout=5) can do: return a response, raise
\* requests.exceptions.Timeout, or raise another RequestException.
HttpOutcomes ==
    { [kind |-> "response", status_code |-> 200, text |-> t] : t \in Texts }
    \cup { [kind |-> "response", status_code |-> s, text |-> ErrorObject] :
             s \in StatusCodes \ {200} }
    \cup { [kind |-> k, status_code |-> 0, text |-> <<>>] :
             k \in {"Timeout", "ConnectionError"} }

NoHttp == [kind |-> "-", status_code |-> 0, text |-> <<>>]
NoRequest == [contract |-> "-", apiKey |-> "-"]

(* ------------------------------ time ----------------------------------- *)
\* The instant of clock value 0, in UTC.
Epoch == [ymd |-> 20240301, h |-> 10, m |-> 15, s |-> 30]

TimeZones == {0, 1}

\* struct_time of clock value `now`, shifted by `offset` hours.
StructTime(now, offset) ==
    LET total == ((Epoch.h + offset) * 60 + Epoch.m) * 60 + Epoch.s + now
    IN  [ymd |-> Epoch.ymd,
         h |-> total \div 3600, m |-> (total % 3600) \div 60, s |-> total % 60]

gmtime(now) == StructTime(now, 0)
localtime(now, zone) == StructTime(now, zone)

\* strftime of "%Y%m%d-%H%M%S" / "%Y-%m-%dT%H:%M:%SZ": the date digits and
\* the zero-padded HHMMSS digits.
strftime(st) == [ymd |-> st.ymd, hms |-> (st.h * 100 + st.m) * 100 + st.s]

NoTime == [ymd |-> 0, hms |-> 0]

(* ------------------------------ object store --------------------------- *)
NoPut == [bucket |-> "-", key |-> [contract |-> "-", timestr |-> NoTime], body |-> <<>>]

\* What s3.put_object can do: acknowledge, raise botocore ClientError, or
\* raise another exception (endpoint unreachable, parameter validation).
StoreOutcomes == {"ack", "ClientError", "Exception"}

\* botocore validates the Bucket parameter before sending: an empty bucket
\* name is a ParamValidationError whatever the store would answer.
PutOutcome(bucket, storeOutcome) ==
    IF bucket = "" /\ storeOutcome = "ack" THEN "Exception" ELSE storeOutcome

\* put_object as a store that keeps the object already under the key.
put_object_keep_first(objects, put) ==
    IF \E o \in objects : o.bucket = put.bucket /\ o.key = put.key
    THEN objects ELSE objects \cup {put}

\* The store after an acknowledged put: the object under (bucket, key) is
\* the one written, whatever was there.
put_object(objects, put) ==
    { o \in objects : ~(o.bucket = put.bucket /\ o.key = put.key) } \cup {put}

(* ------------------------------ upload_to_s3 --------------------------- *)
\* io.StringIO(content).read(): the text given, no newline translation.
StringIO_read(content) == content

\* f"{contract}-{timestr}.json", from the module globals.
filename(contract, timestr) == [contract |-> contract, timestr |-> timestr]

\* upload_to_s3 reporting True whatever put_object did.
UploadReturn_always_true(outcome) == TRUE

\* Lines 272-279: True after put_object returned, False from either except.
UploadReturn(outcome) == outcome = "ack"

NoUpload == [ret |-> FALSE, putCalls |-> 0, put |-> NoPut, putOutcome |-> "-"]

\* upload_to_s3(content), with the module globals g, wall clock `now` in
\* time zone `zone`, and the store's answer to the one put_object call.
upload_to_s3(g, now, zone, content, storeOutcome) ==
    IF get_s3_client(g) = "NameError" THEN NoUpload
    ELSE IF g.contract = Undefined \/ g.bucket_name = Undefined THEN NoUpload
    ELSE LET timestr == strftime(localtime(now, zone))
             put     == [bucket |-> g.bucket_name,
                         key    |-> filename(g.contract, timestr),
                         body   |-> StringIO_read(content)]
             outcome == PutOutcome(g.bucket_name, storeOutcome)
         IN  [ret |-> UploadReturn(outcome), putCalls |-> 1,
              put |-> put, putOutcome |-> outcome]

(* ------------------------------ lambda_handler ------------------------- *)
\* hasattr(event, 'get')
HasGet(event) == event = "{}"
\* `context and hasattr(context, 'aws_request_id')`
HasRequestId(context) == context = "LambdaContext"

\* The record of one invocation: what it was given, what it called, what it
\* returned.
Blank(e) ==
    [outcome |-> "returned", statusCode |-> 0, status |-> "-", message |-> "-",
     names |-> "-", station_count |-> -1, timestamp |-> NoTime,
     environ |-> [v \in Required |-> e[v]],
     httpCalls |-> 0, request |-> NoRequest, response |-> NoHttp,
     uploadCalls |-> 0, content |-> <<>>, uploadReturn |-> "-",
     putCalls |-> 0, put |-> NoPut, putOutcome |-> "-"]

Returns(r, code, status, message) ==
    [r EXCEPT !.statusCode = code, !.status = status, !.message = message]

\* Lines 107-115
ConfigurationError(r, var) ==
    [Returns(r, 500, "error", "Required environment variable is not set")
        EXCEPT !.names = var]

\* The timeout reported with the generic failure code.
TimeoutResult_generic(r) == Returns(r, 500, "error", "API request timed out")

\* Lines 201-209
TimeoutResult(r) == Returns(r, 504, "error", "API request timed out")

\* Lines 210-218
RequestErrorResult(r) == Returns(r, 500, "error", "Request error")

\* Lines 219-227
InvalidJsonResult(r) == Returns(r, 500, "error", "Invalid JSON response")

\* Lines 228-236
UnexpectedResult(r) == Returns(r, 500, "error", "Unexpected error")

\* A non-200 answer reported with the generic failure code.
ApiFailedResult_generic(r, status_code) ==
    Returns(r, 500, "error", "API request failed with status code")

\* Lines 185-199
ApiFailedResult(r, status_code) ==
    Returns(r, status_code, "error", "API request failed with status code")

\* Lines 163-184
UploadedResult(r, up, station_count, now) ==
    LET u == [r EXCEPT !.uploadCalls = 1, !.putCalls = up.putCalls,
                       !.uploadReturn = IF up.ret THEN "True" ELSE "False",
                       !.put = up.put, !.putOutcome = up.putOutcome]
    IN  IF up.ret
        THEN [Returns(u, 200, "success", "successfully retrieved and stored")
                 EXCEPT !.station_count = station_count,
                        !.timestamp = strftime(gmtime(now))]
        ELSE Returns(u, 500, "error", "Failed to upload data to S3")

\* Lines 117-236: the request and what follows it.
Collect(r, g, now, zone, contract, api_key, http, storeOutcome) ==
    LET called == [r EXCEPT !.httpCalls = 1, !.response = http,
                            !.request = [contract |-> contract, apiKey |-> api_key]]
    IN  IF http.kind = "Timeout" THEN TimeoutResult(called)
        ELSE IF http.kind # "response" THEN RequestErrorResult(called)
        ELSE IF http.status_code = 200
             THEN LET result        == http.text
                      stations_data == json_loads(result)
                  IN  IF ~stations_data.ok THEN InvalidJsonResult(called)
                      ELSE IF stations_data.len < 0 THEN UnexpectedResult(called)
                      ELSE UploadedResult([called EXCEPT !.content = result],
                               upload_to_s3(g, now, zone, result, storeOutcome),
                               stations_data.len, now)
        ELSE ApiFailedResult(called, http.status_code)

\* lambda_handler(event, context) run with environment e, module globals g.
lambda_handler(e, g, now, zone, event, context, http, storeOutcome) ==
    LET r == Blank(e)
    IN  IF HasRequestId(context) /\ ~HasGet(event)
        THEN [r EXCEPT !.outcome = "raised", !.message = "AttributeError: event has no attribute 'get'"]
        ELSE LET c == get_env_var(e, "CONTRACT", None)
                 a == get_env_var(e, "API_KEY", None)
                 b == get_env_var(e, "BUCKET_NAME", None)
             IN  IF c.raised THEN ConfigurationError(r, c.var)
                 ELSE IF a.raised THEN ConfigurationError(r, a.var)
                 ELSE IF b.raised THEN ConfigurationError(r, b.var)
                 ELSE Collect(r, g, now, zone, c.value, a.value, http, storeOutcome)

(* ------------------------------ state ---------------------------------- *)
VARIABLES
    environ,      \* os.environ, the five variables the module reads
    globals,      \* the module globals assigned at import (lines 49-57)
    tz,           \* the process's time zone, hours east of UTC
    clock,        \* wall clock, seconds after Epoch
    store,        \* the objects the store holds
    last,         \* the record of the latest invocation
    invocations,  \* invocations so far
    acked,        \* acknowledged writes so far
    envChanges    \* environment changes so far

vars == <<environ, globals, tz, clock, store, last, invocations, acked, envChanges>>

NotInvoked == [Blank([v \in EnvVars |-> None]) EXCEPT !.outcome = "none"]

\* The process right after `import lambda_modernized`.
Init ==
    /\ environ \in Environments
    /\ globals = ModuleLoad(environ)
    /\ tz \in TimeZones
    /\ clock = 0
    /\ store = {}
    /\ last = NotInvoked
    /\ invocations = 0
    /\ acked = 0
    /\ envChanges = 0

\* os.environ[var] = value / del os.environ[var], as the tests do between
\* invocations (explored while an invocation can still follow).
SetEnv(limit, var, value) ==
    /\ invocations < limit
    /\ envChanges < MaxEnvChanges
    /\ environ[var] # value
    /\ environ' = [environ EXCEPT ![var] = value]
    /\ envChanges' = envChanges + 1
    /\ UNCHANGED <<globals, tz, clock, store, last, invocations, acked>>

\* A second of wall-clock time passes (explored while an invocation can
\* still follow).
Tick(limit) ==
    /\ invocations < limit
    /\ clock < MaxClock
    /\ clock' = clock + 1
    /\ UNCHANGED <<environ, globals, tz, store, last, invocations, acked, envChanges>>

\* One invocation of the entry point, start to end.
Invoke(limit, event, context, http, storeOutcome) ==
    /\ invocations < limit
    /\ \E r \in {lambda_handler(environ, globals, clock, tz, event, context,
                               http, storeOutcome)} :
           /\ last' = r
           /\ store' = IF r.putOutcome = "ack" THEN put_object(store, r.put) ELSE store
           /\ acked' = IF r.putOutcome = "ack" THEN acked + 1 ELSE acked
    /\ invocations' = invocations + 1
    /\ UNCHANGED <<environ, globals, tz, clock, envChanges>>

\* The payloads the entry point is triggered with: the tests' ({}, {}), a
\* scheduled event and a non-mapping payload under the Lambda runtime.
Triggers == { <<"{}", "{}">>, <<"{}", "LambdaContext">>, <<"[]", "LambdaContext">> }

\* The collaborators answer only the calls the handler makes: the HTTP
\* layer when requests.get is reached, the store when put_object is reached.
HttpAnswers(trigger) ==
    IF lambda_handler(environ, globals, clock, tz, trigger[1], trigger[2],
                      NoHttp, "-").httpCalls = 1
    THEN HttpOutcomes ELSE {NoHttp}

StoreAnswers(trigger, http) ==
    IF lambda_handler(environ, globals, clock, tz, trigger[1], trigger[2],
                      http, "-").putCalls = 1
    THEN StoreOutcomes ELSE {"-"}

Next ==
    \/ \E var \in Required :
         \E value \in EnvValues(var) : SetEnv(MaxInvocations, var, value)
    \/ Tick(MaxInvocations)
    \/ \E trigger \in Triggers :
         \E http \in HttpAnswers(trigger) :
           \E storeOutcome \in StoreAnswers(trigger, http) :
             Invoke(MaxInvocations, trigger[1], trigger[2], http, storeOutcome)

Spec == Init /\ [][Next]_vars

\* The same process invoked repeatedly in an unchanged environment, the
\* upstream answering with a station array, a page that is no JSON, an
\* error status, or not at all.
RepeatOutcomes ==
    { h \in HttpOutcomes :
        h.status_code = 200 => h.text \in {Stations1, Stations2, <<"<html>">>} }

NextRepeat ==
    \/ Tick(MaxRepeats)
    \/ \E trigger \in Triggers :
         \E http \in HttpAnswers(trigger) \cap (RepeatOutcomes \cup {NoHttp}) :
           \E storeOutcome \in StoreAnswers(trigger, http) :
             Invoke(MaxRepeats, trigger[1], trigger[2], http, storeOutcome)

SpecRepeat == Init /\ [][NextRepeat]_vars

(* ============================== claims ================================= *)
Invoked == last.outcome # "none"

\* The failure kind of the latest invocation, from what the HTTP layer did.
FailureKind(r) ==
    IF r.response.kind = "Timeout" THEN "TimeoutError"
    ELSE IF r.response.kind = "ConnectionError" THEN "TransportError"
    ELSE IF r.response.kind = "response" /\ r.response.status_code # 200
         THEN "UpstreamError"
    ELSE IF r.response.kind = "response" /\ ~json_loads(r.response.text).ok
         THEN "MalformedResponseError"
    ELSE "-"

\* C1: an invocation with a required variable unset returns 500 / "error"
\* with a message naming an unset variable, and makes no HTTP call and no
\* storage write.
C1_MissingEnvReturns500 ==
    (Invoked /\ \E v \in Required : last.environ[v] = None)
    => /\ last.outcome = "returned"
       /\ last.statusCode = 500
       /\ last.status = "error"
       /\ last.names \in { v \in Required : last.environ[v] = None }
       /\ last.httpCalls = 0
       /\ last.putCalls = 0

\* C2: with the three variables set at invocation time, a 200 response
\* carrying an array of N stations and a store that accepts writes, the
\* invocation returns 200 / "success" with station_count = N, calls
\* put_object once and writes the response text unchanged.
C2_SuccessWhateverTheLoadEnvironment ==
    ( /\ Invoked
      /\ \A v \in Required : Truthy(last.environ[v])
      /\ last.response.kind = "response"
      /\ last.response.status_code = 200
      /\ last.response.text \in {Stations1, Stations2}
      /\ last.putOutcome \in {"ack", "-"} )
    => /\ last.outcome = "returned"
       /\ last.statusCode = 200
       /\ last.status = "success"
       /\ last.station_count = (IF last.response.text = Stations1 THEN 1 ELSE 2)
       /\ last.putCalls = 1
       /\ last.put.body = last.response.text

\* C3: a response with a status other than 200 gives that status as the
\* outcome code, status "error", and no call of the archiver or the store.
C3_UpstreamStatusPassedThrough ==
    ( /\ Invoked
      /\ last.response.kind = "response"
      /\ last.response.status_code # 200 )
    => /\ last.outcome = "returned"
       /\ last.statusCode = last.response.status_code
       /\ last.status = "error"
       /\ last.uploadCalls = 0
       /\ last.putCalls = 0

C3_Witness ==
    /\ last.response.kind = "response"
    /\ last.response.status_code = 403
    /\ last.statusCode = 403

\* C4: a storage write that fails makes upload_to_s3 return False (it does
\* not raise), is the only write of the invocation, and gives outcome 500 /
\* "error"; outcome 200 is returned only for an acknowledged write.
C4_StorageFailureIs500 ==
    /\ (last.putCalls = 1 /\ last.putOutcome # "ack")
       => /\ last.outcome = "returned"
          /\ last.uploadReturn = "False"
          /\ last.uploadCalls = 1
          /\ last.statusCode = 500
          /\ last.status = "error"
    /\ (last.statusCode = 200 => last.putOutcome = "ack")

C4_Witness ==
    /\ last.response.status_code = 200
    /\ last.putCalls = 1
    /\ last.putOutcome = "ClientError"
    /\ last.statusCode = 500

\* C5: every invocation ends by returning a structured result; no
\* exception leaves lambda_handler.
C5_NothingEscapes ==
    Invoked => /\ last.outcome = "returned"
               /\ last.status \in {"success", "error"}
               /\ last.statusCode > 0

\* C6: an invocation with a required variable present but empty makes no
\* HTTP call, and what it returns is the configuration error (500, naming
\* an empty variable).
C6_EmptyIsConfigurationError ==
    (Invoked /\ \E v \in Required : last.environ[v] = "")
    => /\ last.httpCalls = 0
       /\ last.outcome = "returned"
          => /\ last.statusCode = 500
             /\ last.status = "error"
             /\ last.message = "Required environment variable is not set"

\* C7: on a 200 response the archiver is called (once, with the raw text)
\* exactly when the text is valid JSON; otherwise the outcome is 500 and
\* nothing is written.
C7_ArchivedIffJson ==
    ( /\ Invoked
      /\ last.response.kind = "response"
      /\ last.response.status_code = 200 )
    => IF json_loads(last.response.text).ok
       THEN last.uploadCalls = 1 /\ last.content = last.response.text
       ELSE /\ last.statusCode = 500
            /\ last.uploadCalls = 0
            /\ last.putCalls = 0

\* C8 (as claimed): two invocations failing with different failure kinds
\* never return the same outcome code.
C8_DistinctCodes ==
    [][ ( /\ invocations' = invocations + 1
          /\ FailureKind(last) # "-"
          /\ FailureKind(last') # "-"
          /\ FailureKind(last) # FailureKind(last') )
        => last.statusCode # last'.statusCode ]_vars

\* C8 (amended): a timeout gives 504, a malformed 200 body and a transport
\* failure both give 500, an upstream error gives the upstream status.
C8_CodesByKind ==
    /\ FailureKind(last) = "TimeoutError" => last.statusCode = 504
    /\ FailureKind(last) \in {"MalformedResponseError", "TransportError"}
         => last.statusCode = 500
    /\ FailureKind(last) = "UpstreamError"
         => last.statusCode = last.response.status_code

C8_Witness ==
    /\ invocations = 2
    /\ FailureKind(last) = "TimeoutError"
    /\ last.statusCode = 504

\* C9: the object of a successful invocation goes to the bucket named at
\* invocation time, under a key whose contract is the one this invocation
\* validated and sent as the query parameter.
C9_KeyUsesInvocationContract ==
    ( /\ Invoked
      /\ last.statusCode = 200
      /\ \A v \in Required : Truthy(last.environ[v]) )
    => /\ last.put.bucket = last.environ["BUCKET_NAME"]
       /\ last.put.key.contract = last.request.contract
       /\ last.request.contract = last.environ["CONTRACT"]

====
